---- MODULE Spec2Model ----
(***************************************************************************)
(* Model of the Library service: the in-memory library engine of           *)
(* models/user_model.py (personal_library, favorite_books, reviews), the   *)
(* Book and Review entities, the users table it reads accounts from, and   *)
(* the /api/add-favorite-book route of app.py, and the password hashing   *)
(* of a User instance.                                                     *)
(*                                                                         *)
(* Python objects are modelled with a heap: a Book is a reference into     *)
(* `heap`, so that personal_library and favorite_books can hold the same   *)
(* entity, as they do in the source.  The three collections are class      *)
(* attributes of User (user_model.py:37-39), hence one list each for the   *)
(* whole process, whatever User instance an operation is given.            *)
(*                                                                         *)
(* Spec is the library engine called directly (as the unit tests do);      *)
(* SpecApp is the account operations and the routes of the running app;    *)
(* SpecPassword is set_password and check_password on one User instance;  *)
(* SpecAccounts is the users table under account creation, deletion and    *)
(* the routes that ask for the password.                                   *)
(* SpecConcurrent is add_book_personal_library served by two threads, cut  *)
(* at the points where it reads or writes personal_library.                *)
(* A run makes at most MaxCalls calls.                                     *)
(***************************************************************************)
EXTENDS Integers, Sequences, FiniteSets, TLC

\* ---------------------------------------------------------------- bounds
\* longest candidate list the search provider answers with in the model
MaxDocs == 2
\* largest book_id a caller passes in the model (0 is the falsy id)
MaxBookId == 2
\* number of calls made in one run of the model
MaxCalls == 5

\* ------------------------------------------------------- python helpers
None == "None"

\* dict.get(key, default)
PyGet(d, k, default) == IF k \in DOMAIN d THEN d[k] ELSE default

\* truthiness of d.get(k) for a str value and for a list value
TruthyStr_KeyOnly(d, k) == k \in DOMAIN d

TruthyStr(d, k) == k \in DOMAIN d /\ d[k] # ""

TruthyList(d, k) == k \in DOMAIN d /\ d[k] # <<>>

\* a comparison that does not fold case
Lower_CaseSensitive(s) == s

\* str.lower() on the strings of the model
Lower(s) ==
  CASE s = "Dune"    -> "dune"
    [] s = "Herbert" -> "herbert"
    [] s = "HERBERT" -> "herbert"
    [] s = "Unknown" -> "unknown"
    [] s = "Emma"    -> "emma"
    [] s = "Austen"  -> "austen"
    [] OTHER         -> s

\* a removal that drops the head of the list, whatever was asked for
ListRemove_PopFront(s, x) == IF s = <<>> THEN <<>> ELSE Tail(s)

\* a removal that drops the end of the list, whatever was asked for
ListRemove_PopBack(s, x) == IF s = <<>> THEN <<>> ELSE SubSeq(s, 1, Len(s) - 1)

\* list.remove(x): drops the first element equal to x
RECURSIVE ListRemove(_, _)
ListRemove(s, x) ==
  IF s = <<>> THEN <<>>
  ELSE IF Head(s) = x THEN Tail(s)
  ELSE <<Head(s)>> \o ListRemove(Tail(s), x)

Range(s) == {s[i] : i \in DOMAIN s}

\* ------------------------------------------------------------- inputs
Usernames == {"alice", "bob"}
Passwords == {"pw"}
Salts == {"s1", "s2"}
PasswordInputs == {"", "pw", "pws", "1234"}

\* a status list that lets "Invalid" through
Statuses_WithInvalid == <<"Want to Read", "Reading", "Read", "Invalid">>

Statuses == <<"Want to Read", "Reading", "Read">>
StatusInputs == Range(Statuses) \cup {"Invalid"}
ReviewTexts == {"", "Great Read"}
BookIdInputs == 0..MaxBookId

\* candidate records ("docs") of the OpenLibrary answer; the provider
\* leaves a key out when it has no value for it, so an author_name list,
\* when present, has a first element
DocDune == [title |-> "Dune", author_name |-> <<"Herbert", "Other">>,
            isbn |-> <<"i1", "i2">>]
DocDuneCase == [title |-> "dune", author_name |-> <<"HERBERT">>]
DocBare == [isbn |-> <<>>]
Docs == {DocDune, DocDuneCase, DocBare}

RECURSIVE SeqsUpTo(_, _)
SeqsUpTo(S, n) ==
  IF n = 0 THEN {<<>>}
  ELSE LET shorter == SeqsUpTo(S, n - 1)
       IN shorter \cup {Append(s, x) : s \in {t \in shorter : Len(t) = n - 1}, x \in S}

\* outcome of session.get(...): a RequestException, or the docs list
ProviderAnswers ==
  {[ok |-> FALSE, docs |-> <<>>]} \cup {[ok |-> TRUE, docs |-> d] : d \in SeqsUpTo(Docs, MaxDocs)}

\* the search was not called
NotAsked == [ok |-> FALSE, docs |-> <<>>, asked |-> FALSE]

\* what the search may answer to a request: it is called only with a title
AnswersFor(book_data) ==
  IF TruthyStr(book_data, "title") THEN ProviderAnswers ELSE {NotAsked}

\* the request body handed to add_book_personal_library (username removed)
BookDatas ==
  { [title |-> ""],
    [title |-> "Dune"],
    [title |-> "Dune", author |-> "Herbert"] }

\* ---------------------------------------------------------------- state
VARIABLES
  calls,             \* number of calls served so far
  heap,              \* Book objects: reference -> [id, title, author, isbn, status]
  personal_library,  \* User.personal_library: list of Book references
  favorite_books,    \* User.favorite_books: list of Book references
  reviews,           \* User.reviews: list of Review values
  users,             \* rows of the users table, oldest first: [username, password, salt]
  request,           \* the HTTP request being served, when the call came through a route
  account,           \* a User instance held in memory: its salt and password_hash
  inflight,          \* the add-book calls running side by side: per thread, where
                     \* it stands in add_book_personal_library and its locals
  last               \* the last call: operation, arguments, status code, body, and
                     \* io, the calls it made to the search provider and to sqlite

vars == <<calls, heap, personal_library, favorite_books, reviews, users, request, account,
          inflight, last>>
collections == <<heap, personal_library, favorite_books, reviews>>

\* ------------------------------------------------------------- entities
\* a constructor that leaves the status out
Book_WithoutStatus(id, title, author, isbn, status) ==
  [id |-> id, title |-> title, author |-> author, isbn |-> isbn, status |-> None]

\* Book.__init__
Book(id, title, author, isbn, status) ==
  [id |-> id, title |-> title, author |-> author, isbn |-> isbn, status |-> status]

\* Book.to_dict
to_dict(r) ==
  [id |-> heap[r].id, title |-> heap[r].title, author |-> heap[r].author,
   isbn |-> heap[r].isbn, status |-> heap[r].status]

\* a constructor that takes its last two arguments in the other order
Review_Swapped(book_id, book_title, review_text) ==
  [book_id |-> book_id, book_title |-> review_text, review_text |-> book_title]

\* a constructor that records the id that follows the one it is given
Review_OtherBook(book_id, book_title, review_text) ==
  [book_id |-> book_id + 1, book_title |-> book_title, review_text |-> review_text]

\* Review.__init__ / Review.to_dict
Review(book_id, book_title, review_text) ==
  [book_id |-> book_id, book_title |-> book_title, review_text |-> review_text]

\* a reference no live object uses (objects no list refers to are collected)
NewRef == CHOOSE r \in 1..(Cardinality(DOMAIN heap) + 1) : r \notin DOMAIN heap

\* the heap restricted to the objects the two lists still refer to
Collect(h, lib, fav) == [r \in (Range(lib) \cup Range(fav)) |-> h[r]]

\* a lookup that keeps the last match instead of stopping at the first
FindBook_Last(book_id) ==
  IF \E i \in DOMAIN personal_library : heap[personal_library[i]].id = book_id
  THEN CHOOSE i \in DOMAIN personal_library :
         /\ heap[personal_library[i]].id = book_id
         /\ \A j \in (i + 1)..Len(personal_library) : heap[personal_library[j]].id # book_id
  ELSE 0

\* "for book in user.personal_library: if book.id == book_id: ... break"
\* the index of the first book with that id, 0 when there is none
FindBook(book_id) ==
  IF \E i \in DOMAIN personal_library : heap[personal_library[i]].id = book_id
  THEN CHOOSE i \in DOMAIN personal_library :
         /\ heap[personal_library[i]].id = book_id
         /\ \A j \in 1..(i - 1) : heap[personal_library[j]].id # book_id
  ELSE 0

\* the (response, status_code) pair an operation returns, with its arguments
\* and the external calls it made on the way; the operation ran from start
\* to end with no other call in between
RespondIO(op, args, code, body, io) ==
  /\ calls < MaxCalls
  /\ calls' = calls + 1
  /\ UNCHANGED inflight
  /\ last' = [op |-> op, args |-> args, code |-> code, body |-> body, io |-> io]

\* an operation that returns without calling the provider or the database
Respond(op, args, code, body) == RespondIO(op, args, code, body, <<>>)

NoRequest == [route |-> "", data |-> <<>>, db_ok |-> TRUE]

\* the threads of the server that serve requests side by side
Threads == {1, 2}

\* a thread that is serving no add-book call
Idle == [pc |-> "idle", args |-> <<>>, new_book |-> <<>>]

\* User.__init__: "self.salt = None; self.password_hash = None"
NewUser == [salt |-> None, password_hash |-> None]

\* a call made on the model layer directly, not through a route
Direct == request' = NoRequest /\ UNCHANGED account

\* rows of the user_books table: no statement of the source inserts one
user_books == {}

Init ==
  /\ calls = 0
  /\ request = NoRequest
  /\ heap = <<>>
  /\ personal_library = <<>>
  /\ favorite_books = <<>>
  /\ reviews = <<>>
  /\ users = <<>>
  /\ account = NewUser
  /\ inflight = [t \in Threads |-> Idle]
  /\ last = [op |-> "init", args |-> <<>>, code |-> 0, body |-> <<>>, io |-> <<>>]

\* ------------------------------------------------------------ add book
book_title(doc) == PyGet(doc, "title", "Unknown")
book_author(doc) == PyGet(doc, "author_name", <<"Unknown">>)[1]
book_isbn(doc) == IF TruthyList(doc, "isbn") THEN doc["isbn"][1] ELSE None

\* the candidate as listed in the 300 answer
CandidateDict(doc) ==
  [id |-> None, title |-> book_title(doc), author |-> book_author(doc), isbn |-> book_isbn(doc)]

\* the commit rule without its author clause, and without its length clause
Commits_SingleOnly(book_data, books) == Len(books) = 1

Commits_Always(book_data, books) == Len(books) >= 1

\* "len(books) == 1 or 'author' in book_data"
Commits(book_data, books) == Len(books) = 1 \/ "author" \in DOMAIN book_data

\* a duplicate check that looks at the first stored book only
DuplicateOf_FirstOnly(title, author) ==
  IF /\ personal_library # <<>>
     /\ Lower(heap[personal_library[1]].title) = Lower(title)
     /\ Lower(heap[personal_library[1]].author) = Lower(author)
  THEN 1 ELSE 0

\* index of the first existing book equal to the candidate ignoring case, else 0
DuplicateOf(title, author) ==
  LET same(i) == /\ Lower(heap[personal_library[i]].title) = Lower(title)
                 /\ Lower(heap[personal_library[i]].author) = Lower(author)
  IN IF \E i \in DOMAIN personal_library : same(i)
     THEN CHOOSE i \in DOMAIN personal_library : same(i) /\ \A j \in 1..(i - 1) : ~same(j)
     ELSE 0

\* an id taken from the length before the append, without the + 1
NextBookId_Length == Len(personal_library)

\* "id=len(user.personal_library) + 1"
NextBookId == Len(personal_library) + 1

\* answer: what the search would return; it is asked for only past the title check
add_book_personal_library(book_data, answer) ==
  LET op == "add_book_personal_library"
      args == [book_data |-> book_data, answer |-> answer]
      books == answer.docs
      searched == <<"GET search.json">>
  IN /\ UNCHANGED users
     /\ IF ~TruthyStr(book_data, "title")
        THEN /\ Respond(op, args, 400, [message |-> "Please provide a book title"])
             /\ UNCHANGED collections
        ELSE IF ~answer.ok
        THEN /\ RespondIO(op, args, 500, [message |-> "Failed to fetch from OpenLibrary"], searched)
             /\ UNCHANGED collections
        ELSE IF books = <<>>
        THEN /\ RespondIO(op, args, 404, [message |-> "No books found with that title"], searched)
             /\ UNCHANGED collections
        ELSE IF Commits(book_data, books)
        THEN LET book == books[1]
                 dup == DuplicateOf(book_title(book), book_author(book))
                 new_book == Book(NextBookId, book_title(book), book_author(book),
                                  book_isbn(book), "Want to Read")
                 r == NewRef
             IN IF dup # 0
                THEN /\ RespondIO(op, args, 400,
                                  [message |-> "is already in your library",
                                   book |-> to_dict(personal_library[dup])], searched)
                     /\ UNCHANGED collections
                ELSE /\ heap' = (r :> new_book) @@ heap
                     /\ personal_library' = Append(personal_library, r)
                     /\ RespondIO(op, args, 200,
                                  [message |-> "has been added to your library",
                                   book |-> new_book], searched)
                     /\ UNCHANGED <<favorite_books, reviews>>
        ELSE /\ RespondIO(op, args, 300,
                          [message |-> "Please specify the author",
                           books |-> [i \in DOMAIN books |-> CandidateDict(books[i])]], searched)
             /\ UNCHANGED collections

\* ------------------------------------------------------------ favorites
\* a membership test that looks at the first favorite only
InFavorites_FirstOnly(book_id) ==
  favorite_books # <<>> /\ heap[favorite_books[1]].id = book_id

\* a membership test that never finds the book
InFavorites_Never(book_id) == FALSE

\* "for book in user.favorite_books: if book.id == book_id"
InFavorites(book_id) == \E j \in DOMAIN favorite_books : heap[favorite_books[j]].id = book_id

\* a favoriting that resets the status
FavoriteStatus_WantToRead == "Want to Read"

\* "book_to_favorite.status = 'Read'"
FavoriteStatus == "Read"

\* a favoriting that marks the book "Read" as soon as it is found, before
\* the test for a duplicate
add_book_favorite_books_MarkFirst(book_id) ==
  LET op == "add_book_favorite_books"
      args == [book_id |-> book_id]
      i == FindBook(book_id)
      book_to_favorite == personal_library[i]
  IN /\ UNCHANGED users
     /\ IF i = 0
        THEN /\ Respond(op, args, 404, [message |-> "not found in your personal library"])
             /\ UNCHANGED collections
        ELSE /\ heap' = [heap EXCEPT ![book_to_favorite].status = FavoriteStatus]
             /\ UNCHANGED <<personal_library, reviews>>
             /\ IF InFavorites(book_id)
                THEN /\ Respond(op, args, 400, [message |-> "is already in your favorites"])
                     /\ UNCHANGED favorite_books
                ELSE /\ favorite_books' = Append(favorite_books, book_to_favorite)
                     /\ Respond(op, args, 200,
                                [message |-> "has been added to your favorites and marked as Read",
                                 book |-> [heap[book_to_favorite] EXCEPT !.status = FavoriteStatus]])

add_book_favorite_books(book_id) ==
  LET op == "add_book_favorite_books"
      args == [book_id |-> book_id]
      i == FindBook(book_id)
      book_to_favorite == personal_library[i]
  IN /\ UNCHANGED users
     /\ IF i = 0
        THEN /\ Respond(op, args, 404, [message |-> "not found in your personal library"])
             /\ UNCHANGED collections
        ELSE IF InFavorites(book_id)
        THEN /\ Respond(op, args, 400, [message |-> "is already in your favorites"])
             /\ UNCHANGED collections
        ELSE /\ heap' = [heap EXCEPT ![book_to_favorite].status = FavoriteStatus]
             /\ favorite_books' = Append(favorite_books, book_to_favorite)
             /\ Respond(op, args, 200,
                        [message |-> "has been added to your favorites and marked as Read",
                         book |-> [heap[book_to_favorite] EXCEPT !.status = FavoriteStatus]])
             /\ UNCHANGED <<personal_library, reviews>>

\* ------------------------------------------------------------- reviews
\* a lookup that looks at the first review only
FindReview_FirstOnly(book_id) ==
  IF reviews # <<>> /\ reviews[1].book_id = book_id THEN 1 ELSE 0

\* "for review in user.reviews: if review.book_id == book_id"
\* index of the first review with that book_id, 0 when there is none
FindReview(book_id) ==
  IF \E i \in DOMAIN reviews : reviews[i].book_id = book_id
  THEN CHOOSE i \in DOMAIN reviews :
         /\ reviews[i].book_id = book_id
         /\ \A j \in 1..(i - 1) : reviews[j].book_id # book_id
  ELSE 0

add_book_review(review_text, book_id) ==
  LET op == "add_book_review"
      args == [review_text |-> review_text, book_id |-> book_id]
      i == FindBook(book_id)
      new_review == Review(book_id, heap[personal_library[i]].title, review_text)
  IN /\ UNCHANGED users
     /\ IF review_text = ""
        THEN /\ Respond(op, args, 400, [message |-> "Please provide a review"])
             /\ UNCHANGED collections
        ELSE IF i = 0
        THEN /\ Respond(op, args, 404, [message |-> "not found in your personal library"])
             /\ UNCHANGED collections
        ELSE IF FindReview(book_id) # 0
        THEN /\ Respond(op, args, 402, [message |-> "You have already reviewed"])
             /\ UNCHANGED collections
        ELSE /\ reviews' = Append(reviews, new_review)
             /\ Respond(op, args, 200, [message |-> "Review added", review |-> new_review])
             /\ UNCHANGED <<heap, personal_library, favorite_books>>

delete_review(book_id) ==
  LET op == "delete_review"
      args == [book_id |-> book_id]
      i == FindBook(book_id)
      k == FindReview(book_id)
  IN /\ UNCHANGED users
     /\ IF book_id = 0
        THEN /\ Respond(op, args, 400, [message |-> "Please provide a book to delete"])
             /\ UNCHANGED collections
        ELSE IF i = 0
        THEN /\ Respond(op, args, 404, [message |-> "not found in your personal library"])
             /\ UNCHANGED collections
        ELSE IF k # 0
        THEN /\ reviews' = ListRemove(reviews, reviews[k])
             /\ Respond(op, args, 200, [message |-> "has been deleted"])
             /\ UNCHANGED <<heap, personal_library, favorite_books>>
        ELSE /\ Respond(op, args, 400, [message |-> "You have not reviewed"])
             /\ UNCHANGED collections

\* --------------------------------------------------------- delete book
delete_book_from_library(book_id) ==
  LET op == "delete_book_from_library"
      args == [book_id |-> book_id]
      i == FindBook(book_id)
      lib == ListRemove(personal_library, personal_library[i])
  IN /\ UNCHANGED users
     /\ IF i = 0
        THEN /\ Respond(op, args, 404, [message |-> "not found in your library"])
             /\ UNCHANGED collections
        ELSE /\ personal_library' = lib
             /\ heap' = Collect(heap, lib, favorite_books)
             /\ Respond(op, args, 200, [message |-> "has been removed from your library"])
             /\ UNCHANGED <<favorite_books, reviews>>

\* -------------------------------------------------------- update status
\* the status rolled back to the old one when the write fails
KeptOnError_Rollback(old_status, new_status) == old_status

\* "old_status = book_to_update.status; book_to_update.status = new_status":
\* the status the book is left with when the write raises sqlite3.Error
\* (the except clause only logs and returns 500)
KeptOnError(old_status, new_status) == new_status

\* db_ok: whether the UPDATE on user_books and its commit go through; the
\* database is reached only once the book is found
update_status(book_id, new_status, db_ok) ==
  LET op == "update_status"
      args == [book_id |-> book_id, new_status |-> new_status,
               db_ok |-> db_ok \/ new_status \notin Range(Statuses) \/ FindBook(book_id) = 0]
      i == FindBook(book_id)
      book_to_update == personal_library[i]
      old_status == heap[book_to_update].status
      status == IF db_ok THEN new_status ELSE KeptOnError(old_status, new_status)
      written == <<"UPDATE user_books">>
  IN /\ UNCHANGED users
     /\ IF new_status \notin Range(Statuses)
        THEN /\ Respond(op, args, 400, [message |-> "Invalid reading status provided"])
             /\ UNCHANGED collections
        ELSE IF i = 0
        THEN /\ Respond(op, args, 404, [message |-> "not found in your library"])
             /\ UNCHANGED collections
        ELSE /\ heap' = [heap EXCEPT ![book_to_update].status = status]
             /\ UNCHANGED <<personal_library, favorite_books, reviews>>
             /\ IF db_ok
                THEN RespondIO(op, args, 200,
                               [message |-> "has been updated",
                                book |-> [heap[book_to_update] EXCEPT !.status = new_status]],
                               written)
                ELSE RespondIO(op, args, 500, [message |-> "Error updating book status"],
                               written)

\* ------------------------------------------------------------ accounts
\* a hash that leaves the password out
Sha512_SaltOnly(password, salt) == "sha512(" \o salt \o ")"

\* hashlib.sha512(f"{password}{salt}".encode()).hexdigest(): the digest of
\* the concatenation, taken as collision-free (one digest per hashed string)
Sha512(password, salt) == "sha512(" \o password \o salt \o ")"

\* User.set_password: the salt is what os.urandom(64).hex() returned
set_password(password, salt) == [password |-> Sha512(password, salt), salt |-> salt]

\* a check that accepts every password
check_password_AnyPassword(user, password) == TRUE

\* User.check_password on the instance user: False when the salt or the
\* hash is missing (None or empty), else whether the stored hash is the
\* digest of the given password and the stored salt
check_password(user, password) ==
  IF ~(user.salt # None /\ user.salt # "") \/ ~(user.password_hash # None /\ user.password_hash # "")
  THEN FALSE
  ELSE user.password_hash = Sha512(password, user.salt)

\* the three calls on one User instance held in memory
User_init ==
  /\ account' = NewUser
  /\ RespondIO("User", <<>>, 0, <<>>, <<>>)
  /\ UNCHANGED <<collections, users, request>>

\* salt: what os.urandom(64).hex() returns to this call
User_set_password(password, salt) ==
  /\ account' = [salt |-> set_password(password, salt).salt,
                 password_hash |-> set_password(password, salt).password]
  /\ RespondIO("set_password", [password |-> password, salt |-> salt], 0, <<>>, <<>>)
  /\ UNCHANGED <<collections, users, request>>

User_check_password(password) ==
  /\ RespondIO("check_password", [password |-> password], 0,
               [result |-> check_password(account, password)], <<>>)
  /\ UNCHANGED <<collections, users, request, account>>

\* a users table without the unique constraint on username
IntegrityError_Never(username) == FALSE

\* the INSERT raises sqlite3.IntegrityError ("UNIQUE constraint failed")
\* when a row already has the username
IntegrityError(username) == \E i \in DOMAIN users : users[i].username = username

\* cursor.fetchone() of "SELECT ... FROM users WHERE username = ?": the
\* index of the first row with the username, 0 when there is none
FetchOne(username) ==
  IF \E i \in DOMAIN users : users[i].username = username
  THEN CHOOSE i \in DOMAIN users :
         /\ users[i].username = username
         /\ \A j \in 1..(i - 1) : users[j].username # username
  ELSE 0

\* db_ok: whether the statements on the sqlite connection go through
create_user_account(username, password, salt, db_ok) ==
  LET op == "create_user_account"
      args == [username |-> username, password |-> password, salt |-> salt, db_ok |-> db_ok]
      row == [username |-> username] @@ set_password(password, salt)
  IN /\ UNCHANGED collections
     /\ IF ~db_ok
        THEN /\ RespondIO(op, args, 500, [message |-> "Error creating account"],
                          <<"INSERT users">>)
             /\ UNCHANGED users
        ELSE IF IntegrityError(username)
        THEN /\ RespondIO(op, args, 400, [message |-> "already exists"], <<"INSERT users">>)
             /\ UNCHANGED users
        ELSE /\ users' = Append(users, row)
             /\ RespondIO(op, args, 200, [message |-> "Account created successfully"],
                          <<"INSERT users">>)

\* the statements of delete_user_account, in the order it executes them
DeleteStatements ==
  <<"SELECT users", "DELETE reviews", "DELETE favorite_books", "DELETE user_books",
    "DELETE users">>

\* where the sqlite connection fails: 0 nowhere, k at the k-th statement,
\* Len(DeleteStatements) + 1 at the commit
FailPoints == 0..(Len(DeleteStatements) + 1)

\* a connection that keeps what was executed before the failure
Rollback_KeepPartial(before, partial) == partial

\* "with sqlite3.connect(DB_PATH) as conn": leaving the block on an
\* exception rolls the open transaction back
Rollback(before, partial) == before

delete_user_account(username, fail_at) ==
  LET op == "delete_user_account"
      k == FetchOne(username)
      reached == IF k = 0 THEN 1 ELSE Len(DeleteStatements) + 1
      fail == IF fail_at > reached THEN 0 ELSE fail_at
      args == [username |-> username, fail_at |-> fail]
      executed == IF fail = 0 \/ fail > Len(DeleteStatements)
                  THEN SubSeq(DeleteStatements, 1, IF k = 0 THEN 1 ELSE Len(DeleteStatements))
                  ELSE SubSeq(DeleteStatements, 1, fail)
      without == SubSeq(users, 1, k - 1) \o SubSeq(users, k + 1, Len(users))
  IN /\ UNCHANGED collections
     /\ IF fail = 1
        THEN /\ RespondIO(op, args, 500, [message |-> "Error deleting account"], executed)
             /\ UNCHANGED users
        ELSE IF k = 0
        THEN /\ RespondIO(op, args, 404, [message |-> "not found"], executed)
             /\ UNCHANGED users
        ELSE IF fail # 0
        THEN /\ RespondIO(op, args, 500, [message |-> "Error deleting account"], executed)
             /\ users' = Rollback(users, IF fail > Len(DeleteStatements) THEN without ELSE users)
        ELSE /\ users' = without
             /\ RespondIO(op, args, 200, [message |-> "Account and all associated data deleted"],
                          executed)

\* User.get_user_by_username: the row as a User, <<>> for None
get_user_by_username(username, db_ok) ==
  IF db_ok /\ FetchOne(username) # 0
  THEN <<[username |-> username, password_hash |-> users[FetchOne(username)].password,
          salt |-> users[FetchOne(username)].salt]>>
  ELSE <<>>

\* an UPDATE that sets the password column and leaves the salt column
User_update_password_KeepSalt(op, args, user, new_password, salt, db_ok) ==
  LET k == FetchOne(user.username)
      row == [users[k] EXCEPT !.password = set_password(new_password, salt).password]
  IN IF db_ok
     THEN /\ users' = [users EXCEPT ![k] = row]
          /\ RespondIO(op, args, 200, [message |-> "Password updated successfully"],
                       <<"SELECT users", "UPDATE users">>)
     ELSE /\ UNCHANGED users
          /\ RespondIO(op, args, 500, [message |-> "Error updating password"],
                       <<"SELECT users", "UPDATE users">>)

\* User.update_password on the instance user: the new hash and salt are
\* written to the row of the instance; salt is what os.urandom returns
User_update_password(op, args, user, new_password, salt, db_ok) ==
  LET k == FetchOne(user.username)
      row == [username |-> user.username] @@ set_password(new_password, salt)
  IN IF db_ok
     THEN /\ users' = [users EXCEPT ![k] = row]
          /\ RespondIO(op, args, 200, [message |-> "Password updated successfully"],
                       <<"SELECT users", "UPDATE users">>)
     ELSE /\ UNCHANGED users
          /\ RespondIO(op, args, 500, [message |-> "Error updating password"],
                       <<"SELECT users", "UPDATE users">>)

\* PUT /update-password; data holds the keys the request body has
update_password(data, salt, lookup_ok, db_ok) ==
  LET op == "update_password"
      user == get_user_by_username(data.username, lookup_ok)
      args == [data |-> data, salt |-> salt, lookup_ok |-> lookup_ok, db_ok |-> db_ok]
  IN /\ request' = [route |-> "/update-password", data |-> data, db_ok |-> lookup_ok]
     /\ UNCHANGED <<collections, account>>
     /\ IF ~({"username", "old_password", "new_password"} \subseteq DOMAIN data)
        THEN /\ Respond(op, args, 400, [message |-> "Please provide username, old_password, and new_password"])
             /\ UNCHANGED users
        ELSE IF user = <<>> \/ ~check_password(user[1], data.old_password)
        THEN /\ RespondIO(op, args, 401, [message |-> "Invalid username or password"],
                          <<"SELECT users">>)
             /\ UNCHANGED users
        ELSE User_update_password(op, args, user[1], data.new_password, salt, db_ok)

\* POST /login; lookup_ok: whether the SELECT of get_user_by_username goes
\* through (it is reached only with both fields given)
login(data, lookup_ok) ==
  LET op == "login"
      missing == ~TruthyStr(data, "username") \/ ~TruthyStr(data, "password")
      args == [data |-> data, lookup_ok |-> lookup_ok \/ missing]
      user == get_user_by_username(data.username, lookup_ok)
  IN /\ request' = [route |-> "/login", data |-> data, db_ok |-> lookup_ok \/ missing]
     /\ UNCHANGED <<collections, users, account>>
     /\ IF missing
        THEN Respond(op, args, 400, [message |-> "Please provide both username and password"])
        ELSE IF user # <<>> /\ check_password(user[1], data.password)
        THEN RespondIO(op, args, 200, [message |-> "Welcome back"], <<"SELECT users">>)
        ELSE RespondIO(op, args, 401, [message |-> "Invalid username or password"],
                       <<"SELECT users">>)

\* DELETE /delete-account
delete_account(data, lookup_ok, fail_at) ==
  LET op == "delete_account"
      user == get_user_by_username(data.username, lookup_ok)
      args == [data |-> data, lookup_ok |-> lookup_ok]
  IN /\ request' = [route |-> "/delete-account", data |-> data, db_ok |-> lookup_ok]
     /\ UNCHANGED account
     /\ IF data.username = "" \/ data.password = ""
        THEN /\ Respond(op, args, 400, [message |-> "Please provide both username and password"])
             /\ UNCHANGED <<collections, users>>
        ELSE IF user = <<>>
        THEN /\ RespondIO(op, args, 404, [message |-> "User not found"], <<"SELECT users">>)
             /\ UNCHANGED <<collections, users>>
        ELSE IF ~check_password(user[1], data.password)
        THEN /\ RespondIO(op, args, 401, [message |-> "Invalid password"], <<"SELECT users">>)
             /\ UNCHANGED <<collections, users>>
        ELSE delete_user_account(data.username, fail_at)

\* -------------------------------------------------------------- routes
\* a grouping that keeps only the latest book of each status
DictAppend_Overwrite(d, key, x) ==
  IF \E k \in DOMAIN d : d[k].key = key
  THEN [k \in DOMAIN d |-> IF d[k].key = key THEN [d[k] EXCEPT !.value = <<x>>] ELSE d[k]]
  ELSE Append(d, [key |-> key, value |-> <<x>>])

\* "if book.status not in library['books']: library['books'][book.status] = []"
\* followed by ".append(book.to_dict())"; a dict is the sequence of its
\* items in insertion order
DictAppend(d, key, x) ==
  IF \E k \in DOMAIN d : d[k].key = key
  THEN [k \in DOMAIN d |-> IF d[k].key = key THEN [d[k] EXCEPT !.value = Append(@, x)] ELSE d[k]]
  ELSE Append(d, [key |-> key, value |-> <<x>>])

\* library["books"] after the loop went through the first n stored books
RECURSIVE BooksByStatus(_)
BooksByStatus(n) ==
  IF n = 0 THEN <<>>
  ELSE DictAppend(BooksByStatus(n - 1), heap[personal_library[n]].status,
                  to_dict(personal_library[n]))

\* get_library: the (response, status_code) pair it returns; the response
\* carries the library dict handed to jsonify
get_library ==
  <<[books |-> BooksByStatus(Len(personal_library)),
     favorites |-> [i \in DOMAIN favorite_books |-> to_dict(favorite_books[i])]],
    200>>

\* get_library called on the model layer
get_library_call ==
  /\ Respond("get_library", <<>>, get_library[2], get_library[1])
  /\ UNCHANGED <<collections, users>>

\* a listing that starts from the latest review
ReviewDicts_Reversed(rs) ==
  [k \in DOMAIN rs |-> [book_id |-> rs[Len(rs) + 1 - k].book_id,
                        book_title |-> rs[Len(rs) + 1 - k].book_title,
                        review_text |-> rs[Len(rs) + 1 - k].review_text]]

\* "[review.to_dict() for review in user.reviews]"
ReviewDicts(rs) ==
  [k \in DOMAIN rs |-> [book_id |-> rs[k].book_id,
                        book_title |-> rs[k].book_title,
                        review_text |-> rs[k].review_text]]

get_reviews ==
  LET op == "get_reviews"
  IN /\ UNCHANGED <<collections, users>>
     /\ IF ~(reviews # <<>>)
        THEN Respond(op, <<>>, 404, [message |-> "You have not reviewed any books yet"])
        ELSE Respond(op, <<>>, 200, [reviews |-> ReviewDicts(reviews)])

\* obj[key] on a Python tuple: an integer key indexes it, any other key
\* raises TypeError
TupleGetItem(obj, key) ==
  IF key.type = "int" /\ key.value \in 0..(Len(obj) - 1)
  THEN [raised |-> "", value |-> <<obj[key.value + 1]>>]
  ELSE [raised |-> IF key.type = "int" THEN "IndexError" ELSE "TypeError", value |-> <<>>]

\* an exception leaving a view function, after the user was looked up:
\* Flask answers 500
Unhandled(op, args, exc) ==
  RespondIO(op, args, 500, [exception |-> exc], <<"SELECT users">>)

\* POST /api/add-book
add_book(data, answer, db_ok) ==
  LET op == "add_book"
      user == get_user_by_username(data.username, db_ok)
      book_data == [k \in DOMAIN data \ {"username"} |-> data[k]]
  IN /\ request' = [route |-> "/api/add-book", data |-> data, db_ok |-> db_ok]
     /\ UNCHANGED account
     /\ IF data.username = ""
        THEN /\ Respond(op, data, 400, [message |-> "Please provide a username"])
             /\ UNCHANGED <<collections, users>>
        ELSE IF ~TruthyStr(data, "title")
        THEN /\ Respond(op, data, 400, [message |-> "Please provide a book title"])
             /\ UNCHANGED <<collections, users>>
        ELSE IF user = <<>>
        THEN /\ RespondIO(op, data, 404, [message |-> "User not found"], <<"SELECT users">>)
             /\ UNCHANGED <<collections, users>>
        ELSE add_book_personal_library(book_data, answer)

\* POST /api/add-favorite-book
add_favorite_book(data, db_ok) ==
  LET op == "add_favorite_book"
      user == get_user_by_username(data.username, db_ok)
      user_library == get_library
      books == TupleGetItem(user_library, [type |-> "str", value |-> "books"])
  IN /\ request' = [route |-> "/api/add-favorite-book", data |-> data, db_ok |-> db_ok]
     /\ UNCHANGED account
     /\ IF data.username = ""
        THEN /\ Respond(op, data, 400, [message |-> "Please provide a username"])
             /\ UNCHANGED <<collections, users>>
        ELSE IF data.book_id = 0
        THEN /\ Respond(op, data, 400, [message |-> "Please provide a book ID"])
             /\ UNCHANGED <<collections, users>>
        ELSE IF user = <<>>
        THEN /\ RespondIO(op, data, 404, [message |-> "User not found"], <<"SELECT users">>)
             /\ UNCHANGED <<collections, users>>
        ELSE IF books.raised # ""
        THEN /\ Unhandled(op, data, books.raised)
             /\ UNCHANGED <<collections, users>>
        ELSE IF ~\E i \in DOMAIN books.value[1] : books.value[1][i].id = data.book_id
        THEN /\ RespondIO(op, data, 404,
                          [message |-> "Book not found in user's personal library"],
                          <<"SELECT users">>)
             /\ UNCHANGED <<collections, users>>
        ELSE add_book_favorite_books(data.book_id)

\* GET /api/get-library?username=
get_user_library(data, db_ok) ==
  LET op == "get_user_library"
      user == get_user_by_username(data.username, db_ok)
  IN /\ request' = [route |-> "/api/get-library", data |-> data, db_ok |-> db_ok]
     /\ UNCHANGED account
     /\ IF data.username = ""
        THEN /\ Respond(op, data, 400, [message |-> "Please provide a username"])
             /\ UNCHANGED <<collections, users>>
        ELSE IF user = <<>>
        THEN /\ RespondIO(op, data, 404, [message |-> "User not found"], <<"SELECT users">>)
             /\ UNCHANGED <<collections, users>>
        ELSE get_library_call

\* POST /api/add-review
add_review(data, db_ok) ==
  LET op == "add_review"
      user == get_user_by_username(data.username, db_ok)
  IN /\ request' = [route |-> "/api/add-review", data |-> data, db_ok |-> db_ok]
     /\ UNCHANGED account
     /\ IF data.username = ""
        THEN /\ Respond(op, data, 400, [message |-> "Please provide a username"])
             /\ UNCHANGED <<collections, users>>
        ELSE IF data.title = ""
        THEN /\ Respond(op, data, 400, [message |-> "Please provide a book title"])
             /\ UNCHANGED <<collections, users>>
        ELSE IF data.review = ""
        THEN /\ Respond(op, data, 400, [message |-> "Please provide a review"])
             /\ UNCHANGED <<collections, users>>
        ELSE IF data.book_id = 0
        THEN /\ Respond(op, data, 400, [message |-> "Please provide a book ID"])
             /\ UNCHANGED <<collections, users>>
        ELSE IF user = <<>>
        THEN /\ RespondIO(op, data, 404, [message |-> "User not found"], <<"SELECT users">>)
             /\ UNCHANGED <<collections, users>>
        ELSE add_book_review(data.review, data.book_id)

\* GET /api/get-reviews?username=
get_user_reviews(data, db_ok) ==
  LET op == "get_user_reviews"
      user == get_user_by_username(data.username, db_ok)
  IN /\ request' = [route |-> "/api/get-reviews", data |-> data, db_ok |-> db_ok]
     /\ UNCHANGED account
     /\ IF data.username = ""
        THEN /\ Respond(op, data, 400, [message |-> "Please provide a username"])
             /\ UNCHANGED <<collections, users>>
        ELSE IF user = <<>>
        THEN /\ RespondIO(op, data, 404, [message |-> "User not found"], <<"SELECT users">>)
             /\ UNCHANGED <<collections, users>>
        ELSE get_reviews

\* DELETE /api/delete-review
delete_user_review(data, db_ok) ==
  LET op == "delete_user_review"
      user == get_user_by_username(data.username, db_ok)
  IN /\ request' = [route |-> "/api/delete-review", data |-> data, db_ok |-> db_ok]
     /\ UNCHANGED account
     /\ IF data.username = ""
        THEN /\ Respond(op, data, 400, [message |-> "Please provide a username"])
             /\ UNCHANGED <<collections, users>>
        ELSE IF data.book_id = 0
        THEN /\ Respond(op, data, 400, [message |-> "Please provide a book ID"])
             /\ UNCHANGED <<collections, users>>
        ELSE IF user = <<>>
        THEN /\ RespondIO(op, data, 404, [message |-> "User not found"], <<"SELECT users">>)
             /\ UNCHANGED <<collections, users>>
        ELSE delete_review(data.book_id)

\* DELETE /api/delete-book/<int:book_id>?username=
delete_book(data, db_ok) ==
  LET op == "delete_book"
      user == get_user_by_username(data.username, db_ok)
  IN /\ request' = [route |-> "/api/delete-book", data |-> data, db_ok |-> db_ok]
     /\ UNCHANGED account
     /\ IF data.username = ""
        THEN /\ Respond(op, data, 400, [message |-> "Please provide a username"])
             /\ UNCHANGED <<collections, users>>
        ELSE IF user = <<>>
        THEN /\ RespondIO(op, data, 404, [message |-> "User not found"], <<"SELECT users">>)
             /\ UNCHANGED <<collections, users>>
        ELSE delete_book_from_library(data.book_id)

\* PUT /api/update-status/<int:book_id>; write_ok: whether the UPDATE of
\* update_status goes through
update_book_status(data, db_ok, write_ok) ==
  LET op == "update_book_status"
      user == get_user_by_username(data.username, db_ok)
  IN /\ request' = [route |-> "/api/update-status", data |-> data, db_ok |-> db_ok]
     /\ UNCHANGED account
     /\ IF data.username = ""
        THEN /\ Respond(op, data, 400, [message |-> "Please provide a username"])
             /\ UNCHANGED <<collections, users>>
        ELSE IF data.status = ""
        THEN /\ Respond(op, data, 400, [message |-> "Please provide a new status"])
             /\ UNCHANGED <<collections, users>>
        ELSE IF data.status \notin Range(Statuses)
        THEN /\ Respond(op, data, 400,
                        [message |-> "Status must be: Want to Read, Reading, or Read"])
             /\ UNCHANGED <<collections, users>>
        ELSE IF user = <<>>
        THEN /\ RespondIO(op, data, 404, [message |-> "User not found"], <<"SELECT users">>)
             /\ UNCHANGED <<collections, users>>
        ELSE update_status(data.book_id, data.status, write_ok)

\* ----------------------------------------------------------- the engine
\* the library operations of models/user_model.py, called directly
Next ==
  \/ \E bd \in BookDatas : \E a \in AnswersFor(bd) :
       add_book_personal_library(bd, a) /\ Direct
  \/ \E id \in BookIdInputs :
       add_book_favorite_books(id) /\ Direct
  \/ \E id \in BookIdInputs :
       delete_book_from_library(id) /\ Direct
  \/ \E id \in BookIdInputs, st \in StatusInputs, ok \in BOOLEAN :
       update_status(id, st, ok) /\ Direct
  \/ \E id \in BookIdInputs, t \in ReviewTexts :
       add_book_review(t, id) /\ Direct
  \/ \E id \in BookIdInputs :
       delete_review(id) /\ Direct
  \/ get_library_call /\ Direct
  \/ get_reviews /\ Direct

Spec == Init /\ [][Next]_vars

\* -------------------------------------------------------------- the app
AddBookRequests ==
  {[username |-> u] @@ bd : u \in Usernames \cup {""}, bd \in BookDatas}

FavoriteRequests ==
  {[username |-> u, book_id |-> id] : u \in Usernames \cup {""}, id \in BookIdInputs}

UsernameRequests == {[username |-> u] : u \in Usernames \cup {""}}

\* a complete request, or one with one field empty
ReviewRequests ==
  {[username |-> u, title |-> "Dune", review |-> "Great Read", book_id |-> id] :
     u \in Usernames, id \in BookIdInputs \ {0}}
    \cup {[username |-> u, title |-> t, review |-> r, book_id |-> id] :
            u \in {"alice", ""}, t \in {"Dune", ""}, r \in ReviewTexts, id \in {0, 1}}

BookIdRequests ==
  {[username |-> u, book_id |-> id] : u \in Usernames \cup {""}, id \in BookIdInputs}

StatusRequests ==
  {[username |-> u, status |-> st, book_id |-> id] :
     u \in Usernames, st \in Range(Statuses), id \in BookIdInputs \ {0}}
    \cup {[username |-> u, status |-> st, book_id |-> 1] :
            u \in {"alice", ""}, st \in {"", "Invalid", "Read"}}

\* the account operations and the library routes, as the running service
\* offers them
NextApp ==
  \/ \E u \in Usernames, p \in Passwords, ok \in BOOLEAN :
       create_user_account(u, p, "s1", ok) /\ Direct
  \/ \E u \in Usernames, f \in {0, 1} :
       delete_user_account(u, f) /\ Direct
  \/ \E d \in AddBookRequests, ok \in BOOLEAN : \E a \in AnswersFor(d) : add_book(d, a, ok)
  \/ \E d \in FavoriteRequests, ok \in BOOLEAN : add_favorite_book(d, ok)
  \/ \E d \in UsernameRequests, ok \in BOOLEAN : get_user_library(d, ok)
  \/ \E d \in ReviewRequests, ok \in BOOLEAN : add_review(d, ok)
  \/ \E d \in UsernameRequests, ok \in BOOLEAN : get_user_reviews(d, ok)
  \/ \E d \in BookIdRequests, ok \in BOOLEAN : delete_user_review(d, ok)
  \/ \E d \in BookIdRequests, ok \in BOOLEAN : delete_book(d, ok)
  \/ \E d \in StatusRequests, ok \in BOOLEAN :
       \E w \in (IF ok THEN BOOLEAN ELSE {TRUE}) : update_book_status(d, ok, w)

SpecApp == Init /\ [][NextApp]_vars

\* --------------------------------------------------------- the accounts
NewPasswords == {"pw", "pws"}

\* a request with its three keys, or one without new_password
UpdatePasswordRequests ==
  {[username |-> u, old_password |-> o, new_password |-> n] :
     u \in Usernames, o \in NewPasswords, n \in NewPasswords}
    \cup {[username |-> u, old_password |-> o] : u \in Usernames, o \in Passwords}

\* a request with both fields, or one with an empty field
DeleteAccountRequests ==
  {[username |-> u, password |-> p] : u \in Usernames, p \in NewPasswords}
    \cup {[username |-> "", password |-> "pw"], [username |-> "alice", password |-> ""]}

\* a login with both fields, or one with an empty password
LoginRequests ==
  {[username |-> u, password |-> p] : u \in Usernames, p \in NewPasswords}
    \cup {[username |-> "alice", password |-> ""]}

\* account creation and deletion on the model layer, and the routes that
\* ask for the password
NextAccounts ==
  \/ \E u \in Usernames, p \in Passwords, s \in Salts, ok \in BOOLEAN :
       create_user_account(u, p, s, ok) /\ Direct
  \/ \E u \in Usernames, f \in FailPoints :
       delete_user_account(u, f) /\ Direct
  \/ \E d \in UpdatePasswordRequests, s \in Salts, lk \in BOOLEAN :
       \E ok \in (IF lk THEN BOOLEAN ELSE {TRUE}) : update_password(d, s, lk, ok)
  \/ \E d \in DeleteAccountRequests, lk \in BOOLEAN :
       \E f \in (IF lk THEN FailPoints ELSE {0}) : delete_account(d, lk, f)
  \/ \E d \in LoginRequests, lk \in BOOLEAN : login(d, lk)

SpecAccounts == Init /\ [][NextAccounts]_vars

\* ---------------------------------------------- password of one instance
NextPassword ==
  \/ User_init
  \/ \E p \in PasswordInputs, s \in Salts : User_set_password(p, s)
  \/ \E q \in PasswordInputs : User_check_password(q)

SpecPassword == Init /\ [][NextPassword]_vars

\* ------------------------------------------- add-book calls side by side
\* add_book_personal_library takes no lock and the lists are shared by all
\* threads, so a call can be overtaken between two of its statements. The
\* steps below are the stretches of the function between the points where
\* it reads or writes personal_library.

\* the thread returns (response, status_code); io as in RespondIO
Return(t, args, code, body) ==
  /\ calls' = calls + 1
  /\ last' = [op |-> "add_book_personal_library", args |-> args, code |-> code,
              body |-> body, io |-> IF TruthyStr(args.book_data, "title")
                                    THEN <<"GET search.json">> ELSE <<>>]
  /\ inflight' = [inflight EXCEPT ![t] = Idle]

Started == {t \in Threads : inflight[t].pc # "idle"}

\* from the entry to the choice of the candidate: the title check, the
\* search and the commit rule; none of them looks at personal_library
add_book_personal_library_search(t, book_data, answer) ==
  LET args == [book_data |-> book_data, answer |-> answer]
      books == answer.docs
  IN /\ inflight[t].pc = "idle"
     /\ calls + Cardinality(Started) < MaxCalls
     /\ UNCHANGED <<collections, users>>
     /\ IF ~TruthyStr(book_data, "title")
        THEN Return(t, args, 400, [message |-> "Please provide a book title"])
        ELSE IF ~answer.ok
        THEN Return(t, args, 500, [message |-> "Failed to fetch from OpenLibrary"])
        ELSE IF books = <<>>
        THEN Return(t, args, 404, [message |-> "No books found with that title"])
        ELSE IF Commits(book_data, books)
        THEN /\ inflight' = [inflight EXCEPT ![t] = [pc |-> "check", args |-> <<args>>,
                                                     new_book |-> <<>>]]
             /\ UNCHANGED <<calls, last>>
        ELSE Return(t, args, 300,
                    [message |-> "Please specify the author",
                     books |-> [i \in DOMAIN books |-> CandidateDict(books[i])]])

\* "for existing_book in user.personal_library: if ... return ..., 400"
add_book_personal_library_check(t) ==
  LET args == inflight[t].args[1]
      book == args.answer.docs[1]
      dup == DuplicateOf(book_title(book), book_author(book))
  IN /\ inflight[t].pc = "check"
     /\ UNCHANGED <<collections, users>>
     /\ IF dup # 0
        THEN Return(t, args, 400, [message |-> "is already in your library",
                                   book |-> to_dict(personal_library[dup])])
        ELSE /\ inflight' = [inflight EXCEPT ![t].pc = "new_book"]
             /\ UNCHANGED <<calls, last>>

\* "new_book = Book(id=len(user.personal_library) + 1, ...)"
add_book_personal_library_new_book(t) ==
  LET book == inflight[t].args[1].answer.docs[1]
      new_book == Book(NextBookId, book_title(book), book_author(book),
                       book_isbn(book), "Want to Read")
  IN /\ inflight[t].pc = "new_book"
     /\ inflight' = [inflight EXCEPT ![t].pc = "append", ![t].new_book = <<new_book>>]
     /\ UNCHANGED <<collections, users, calls, last>>

\* "user.personal_library.append(new_book)" and the 200 answer
add_book_personal_library_append(t) ==
  LET new_book == inflight[t].new_book[1]
      r == NewRef
  IN /\ inflight[t].pc = "append"
     /\ heap' = (r :> new_book) @@ heap
     /\ personal_library' = Append(personal_library, r)
     /\ Return(t, inflight[t].args[1], 200,
               [message |-> "has been added to your library", book |-> new_book])
     /\ UNCHANGED <<favorite_books, reviews, users>>

\* what the search answers in the runs with two threads: a failure, no
\* candidate, one candidate (the same book in two spellings), or two
RacingAnswers(book_data) ==
  IF TruthyStr(book_data, "title")
  THEN {[ok |-> FALSE, docs |-> <<>>], [ok |-> TRUE, docs |-> <<>>],
        [ok |-> TRUE, docs |-> <<DocDune>>], [ok |-> TRUE, docs |-> <<DocDuneCase>>],
        [ok |-> TRUE, docs |-> <<DocDune, DocBare>>]}
  ELSE {NotAsked}

\* add-book calls on the model layer, two at a time
NextConcurrent ==
  \/ \E t \in Threads, bd \in BookDatas : \E a \in RacingAnswers(bd) :
       add_book_personal_library_search(t, bd, a) /\ request' = NoRequest /\ UNCHANGED account
  \/ \E t \in Threads :
       add_book_personal_library_check(t) /\ request' = NoRequest /\ UNCHANGED account
  \/ \E t \in Threads :
       add_book_personal_library_new_book(t) /\ request' = NoRequest /\ UNCHANGED account
  \/ \E t \in Threads :
       add_book_personal_library_append(t) /\ request' = NoRequest /\ UNCHANGED account

SpecConcurrent == Init /\ [][NextConcurrent]_vars

\* ======================================================================
\* Properties
\* ======================================================================
lib_ids == [i \in DOMAIN personal_library |-> heap[personal_library[i]].id]
fav_ids == [i \in DOMAIN favorite_books |-> heap[favorite_books[i]].id]

\* equality of two strings ignoring letter case
CaseClasses == {{"Dune", "dune"}, {"Herbert", "HERBERT"}, {"Unknown", "unknown"}}
SameIgnoringCase(a, b) == a = b \/ \E c \in CaseClasses : a \in c /\ b \in c

\* title and author a candidate record stands for
CandTitle(doc) == IF "title" \in DOMAIN doc THEN doc.title ELSE "Unknown"
CandAuthor(doc) == IF "author_name" \in DOMAIN doc THEN doc.author_name[1] ELSE "Unknown"

\* the stored books that equal the candidate ignoring case
Matches(doc) ==
  {i \in DOMAIN personal_library :
     /\ SameIgnoringCase(heap[personal_library[i]].title, CandTitle(doc))
     /\ SameIgnoringCase(heap[personal_library[i]].author, CandAuthor(doc))}

\* the call just made was add_book_personal_library and got past the search
\* with at least one candidate
Searched ==
  /\ last'.op = "add_book_personal_library"
  /\ "title" \in DOMAIN last'.args.book_data
  /\ last'.args.book_data.title # ""
  /\ last'.args.answer.ok
  /\ last'.args.answer.docs # <<>>

AuthorGiven == "author" \in DOMAIN last'.args.book_data
Candidates == last'.args.answer.docs

\* C1: no two books in personal_library have the same id
C1_UniqueBookIds ==
  \A i, j \in DOMAIN personal_library : i # j => lib_ids[i] # lib_ids[j]

\* C2: an addBook that commits to a candidate that is not a duplicate appends
\* exactly one new Book, last in personal_library, with id = previous length
\* + 1, status "Want to Read" and the title and author of candidate[0]
\* ("Unknown" when missing); stored books, favorite_books and reviews are
\* unchanged
C2_AddAppendsNewBook ==
  [][(/\ Searched
      /\ (Len(Candidates) = 1 \/ AuthorGiven)
      /\ Matches(Candidates[1]) = {})
     => LET n == Len(personal_library)
            r == personal_library'[n + 1]
        IN /\ Len(personal_library') = n + 1
           /\ SubSeq(personal_library', 1, n) = personal_library
           /\ r \notin DOMAIN heap
           /\ heap'[r].id = n + 1
           /\ heap'[r].status = "Want to Read"
           /\ heap'[r].title = CandTitle(Candidates[1])
           /\ heap'[r].author = CandAuthor(Candidates[1])
           /\ \A q \in DOMAIN heap : heap'[q] = heap[q]
           /\ favorite_books' = favorite_books
           /\ reviews' = reviews
           /\ last'.code = 200
           /\ last'.body.book = heap'[r]]_vars

C2_Witness ==
  /\ last.op = "add_book_personal_library"
  /\ last.code = 200
  /\ Len(personal_library) = 2
  /\ "title" \notin DOMAIN last.args.answer.docs[1]
  /\ heap[personal_library[2]].title = "Unknown"

\* C3: with an author in the request and two or more candidates, addBook
\* never answers 300: it commits to candidate[0] and goes on to the
\* duplicate check (400 with the stored book) or the insertion (200 with
\* the new book made from candidate[0])
C3_AuthorCommitsToFirst ==
  [][(Searched /\ AuthorGiven /\ Len(Candidates) >= 2)
     => /\ last'.code # 300
        /\ IF Matches(Candidates[1]) # {}
           THEN /\ last'.code = 400
                /\ personal_library' = personal_library
           ELSE /\ last'.code = 200
                /\ Len(personal_library') = Len(personal_library) + 1
                /\ last'.body.book.title = CandTitle(Candidates[1])
                /\ last'.body.book.author = CandAuthor(Candidates[1])]_vars

C3_Witness ==
  /\ last.op = "add_book_personal_library"
  /\ "author" \in DOMAIN last.args.book_data
  /\ Len(last.args.answer.docs) >= 2
  /\ last.args.answer.docs[1] # last.args.answer.docs[2]
  /\ last.code = 200
  /\ heap[personal_library[Len(personal_library)]].title = CandTitle(last.args.answer.docs[1])

\* C4: with no author in the request and two or more candidates, addBook
\* answers 300 listing every candidate in provider order with id null, and
\* personal_library, favorite_books and reviews are unchanged
C4_AmbiguousWithoutAuthor ==
  [][(Searched /\ ~AuthorGiven /\ Len(Candidates) >= 2)
     => /\ last'.code = 300
        /\ DOMAIN last'.body.books = DOMAIN Candidates
        /\ \A i \in DOMAIN Candidates :
             /\ last'.body.books[i].id = None
             /\ last'.body.books[i].title = CandTitle(Candidates[i])
             /\ last'.body.books[i].author = CandAuthor(Candidates[i])
        /\ UNCHANGED collections]_vars

C4_Witness ==
  /\ last.op = "add_book_personal_library"
  /\ last.code = 300
  /\ "author" \notin DOMAIN last.args.book_data
  /\ Len(last.args.answer.docs) >= 2
  /\ Len(last.body.books) = Len(last.args.answer.docs)
  /\ personal_library # <<>>

\* C5: when the committed candidate equals, ignoring case, a stored book,
\* addBook answers 400 with that stored book's data and current status, and
\* personal_library is not modified
C5_DuplicateDeclined ==
  [][(/\ Searched
      /\ (Len(Candidates) = 1 \/ AuthorGiven)
      /\ Matches(Candidates[1]) # {})
     => /\ last'.code = 400
        /\ \E i \in Matches(Candidates[1]) : last'.body.book = heap[personal_library[i]]
        /\ UNCHANGED collections]_vars

\* the duplicate differs from the stored book in letter case only
C5_Witness ==
  /\ last.op = "add_book_personal_library"
  /\ last.code = 400
  /\ "book" \in DOMAIN last.body
  /\ last.body.book.title # CandTitle(last.args.answer.docs[1])
  /\ last.body.book.status # "Want to Read"

\* C6: every book in favorite_books has the id of a book in personal_library
C6_FavoritesSubsetOfLibrary ==
  \A j \in DOMAIN favorite_books : \E i \in DOMAIN personal_library : lib_ids[i] = fav_ids[j]

\* C7: deleteBook answers 404 and changes nothing when no stored book has
\* the id; otherwise it removes the first stored book with that id and only
\* that one, keeps the order of the others, and leaves favorite_books and
\* reviews unchanged
C7_DeleteBookFrame ==
  [][(last'.op = "delete_book_from_library")
     => LET id == last'.args.book_id
            hits == {i \in DOMAIN personal_library : lib_ids[i] = id}
        IN IF hits = {}
           THEN last'.code = 404 /\ UNCHANGED collections
           ELSE LET k == CHOOSE i \in hits : \A j \in hits : i <= j
                IN /\ last'.code = 200
                   /\ personal_library' =
                        SubSeq(personal_library, 1, k - 1)
                          \o SubSeq(personal_library, k + 1, Len(personal_library))
                   /\ \A i \in DOMAIN personal_library' :
                        heap'[personal_library'[i]] = heap[personal_library'[i]]
                   /\ favorite_books' = favorite_books
                   /\ \A j \in DOMAIN favorite_books :
                        heap'[favorite_books[j]] = heap[favorite_books[j]]
                   /\ reviews' = reviews]_vars

\* a delete that left a book, a favorite and a review behind
C7_Witness ==
  /\ last.op = "delete_book_from_library"
  /\ last.code = 200
  /\ personal_library # <<>>
  /\ favorite_books # <<>>
  /\ reviews # <<>>

\* C8: for a book_id in personal_library that no favorite has, favoriteBook
\* succeeds, sets the book's status to "Read" in the one entity both lists
\* hold and appends it to favorite_books; a second call with the same
\* book_id right after it answers 400 and changes nothing
C8_FavoriteThenDuplicate ==
  [][(last'.op = "add_book_favorite_books")
     => LET id == last'.args.book_id
            hits == {i \in DOMAIN personal_library : lib_ids[i] = id}
        IN /\ (hits # {} /\ \A j \in DOMAIN favorite_books : fav_ids[j] # id)
              => LET k == CHOOSE i \in hits : \A j \in hits : i <= j
                     r == personal_library[k]
                 IN /\ last'.code = 200
                    /\ personal_library' = personal_library
                    /\ favorite_books' = Append(favorite_books, r)
                    /\ heap' = [heap EXCEPT ![r].status = "Read"]
                    /\ last'.body.book = heap'[r]
                    /\ reviews' = reviews
           /\ (last.op = "add_book_favorite_books" /\ last.code = 200 /\ last.args.book_id = id)
              => (last'.code = 400 /\ UNCHANGED collections)]_vars

\* the second call: declined, the book is in both lists and is "Read"
C8_Witness ==
  /\ last.op = "add_book_favorite_books"
  /\ last.code = 400
  /\ \E j \in DOMAIN favorite_books :
       /\ fav_ids[j] = last.args.book_id
       /\ favorite_books[j] \in Range(personal_library)
       /\ heap[favorite_books[j]].status = "Read"

\* C9: POST /api/add-favorite-book for an existing account answers 200 with
\* a message and the book, through the engine, when book_id is the id of a
\* stored book, and 404 when it is not
C9_FavoriteRouteReachesEngine ==
  (/\ request.route = "/api/add-favorite-book"
   /\ \E i \in DOMAIN users : users[i].username = request.data.username
   /\ request.db_ok
   /\ request.data.book_id # 0)
  => IF \E i \in DOMAIN personal_library : lib_ids[i] = request.data.book_id
     THEN /\ last.op = "add_book_favorite_books"
          /\ last.code \in {200, 400}
          /\ last.code = 200 => DOMAIN last.body = {"message", "book"}
     ELSE last.code = 404

\* C10: reviews holds at most one review for any book_id
C10_OneReviewPerBook ==
  \A i, j \in DOMAIN reviews : i # j => reviews[i].book_id # reviews[j].book_id

\* a second review declined while two reviews are stored
C10_Witness ==
  /\ last.op = "add_book_review"
  /\ last.code = 402
  /\ Len(reviews) = 2

\* ----------------------------------------------------------------------
\* reviews
rev_ids == [k \in DOMAIN reviews |-> reviews[k].book_id]
InLibrary(id) == \E i \in DOMAIN personal_library : lib_ids[i] = id
Reviewed(id) == \E k \in DOMAIN reviews : rev_ids[k] = id
FirstInLibrary(id) ==
  CHOOSE i \in DOMAIN personal_library :
    lib_ids[i] = id /\ \A j \in 1..(i - 1) : lib_ids[j] # id
FirstReviewOf(id) ==
  CHOOSE k \in DOMAIN reviews : rev_ids[k] = id /\ \A j \in 1..(k - 1) : rev_ids[j] # id
BooksUnchanged == UNCHANGED <<heap, personal_library, favorite_books>>

\* C11: addReview decides in this order: empty text, 400; else no stored
\* book with the id, 404; else a review with that id already there, 402;
\* else it appends one Review carrying the id, the title of the first
\* stored book with that id, and the text
C11_AddReviewOrder ==
  [][(last'.op = "add_book_review")
     => LET id == last'.args.book_id
            text == last'.args.review_text
        IN IF text = "" THEN last'.code = 400 /\ UNCHANGED collections
           ELSE IF ~InLibrary(id) THEN last'.code = 404 /\ UNCHANGED collections
           ELSE IF Reviewed(id) THEN last'.code = 402 /\ UNCHANGED collections
           ELSE /\ last'.code = 200
                /\ reviews' = Append(reviews,
                     [book_id |-> id,
                      book_title |-> heap[personal_library[FirstInLibrary(id)]].title,
                      review_text |-> text])
                /\ BooksUnchanged]_vars

\* a review appended while two stored books carry the reviewed id
C11_Witness ==
  /\ last.op = "add_book_review"
  /\ last.code = 200
  /\ reviews # <<>>
  /\ reviews[Len(reviews)] = last.body.review
  /\ Cardinality({i \in DOMAIN personal_library : lib_ids[i] = last.args.book_id}) = 2

\* the three steps of the add / delete / add round trip, for the texts in
\* Texts: the add on an unreviewed stored book succeeds and appends; the
\* delete that follows it succeeds and gives back the reviews of before the
\* add; an add that follows a successful delete succeeds
RoundTrip(Texts) ==
  /\ (/\ last'.op = "add_book_review"
      /\ last'.args.review_text \in Texts
      /\ InLibrary(last'.args.book_id)
      /\ ~Reviewed(last'.args.book_id))
     => /\ last'.code = 200
        /\ Len(reviews') = Len(reviews) + 1
        /\ SubSeq(reviews', 1, Len(reviews)) = reviews
  /\ (/\ last.op = "add_book_review"
      /\ last.args.review_text \in Texts
      /\ last.code = 200
      /\ last'.op = "delete_review"
      /\ last'.args.book_id = last.args.book_id)
     => /\ last'.code = 200
        /\ reviews' = SubSeq(reviews, 1, Len(reviews) - 1)
  /\ (/\ last.op = "delete_review"
      /\ last.code = 200
      /\ last'.op = "add_book_review"
      /\ last'.args.review_text \in Texts
      /\ last'.args.book_id = last.args.book_id)
     => last'.code = 200

\* C12 as stated: for a stored book without a review, addReview with any
\* text, then deleteReview, both succeed and restore reviews, and a further
\* addReview succeeds
C12_RoundTripAnyText == [][RoundTrip(ReviewTexts)]_vars

\* C12, amended: the same for every non-empty text
C12_RoundTrip == [][RoundTrip(ReviewTexts \ {""})]_vars

\* a delete that undid the latest add and left an older review in place
C12_Witness ==
  /\ last.op = "delete_review"
  /\ last.code = 200
  /\ reviews # <<>>
  /\ \A k \in DOMAIN reviews : reviews[k].book_id < last.args.book_id

\* a review whose book has left the library: no stored book has its id, or
\* the first stored book with its id carries another title
Orphaned(r) ==
  \/ ~InLibrary(r.book_id)
  \/ heap[personal_library[FirstInLibrary(r.book_id)]].title # r.book_title

\* C13: the review of a book that deleteBook removed stays in reviews
\* through every later call
C13_OrphanReviewStays ==
  [][\A k \in DOMAIN reviews :
       Orphaned(reviews[k]) => \E j \in DOMAIN reviews' : reviews'[j] = reviews[k]]_vars

\* C14: for a stored book, deleteReview answers 400 and changes nothing when
\* no review has the id; otherwise it removes that review and only that
\* one, keeps the order of the others, and leaves personal_library and
\* favorite_books unchanged
C14_DeleteReviewFrame ==
  [][(last'.op = "delete_review" /\ InLibrary(last'.args.book_id))
     => LET id == last'.args.book_id
        IN IF ~Reviewed(id)
           THEN last'.code = 400 /\ UNCHANGED collections
           ELSE LET k == FirstReviewOf(id)
                IN /\ last'.code = 200
                   /\ reviews' = SubSeq(reviews, 1, k - 1)
                                   \o SubSeq(reviews, k + 1, Len(reviews))
                   /\ BooksUnchanged]_vars

\* a delete that removed the older of two reviews
C14_Witness ==
  /\ last.op = "delete_review"
  /\ last.code = 200
  /\ reviews # <<>>
  /\ \A k \in DOMAIN reviews : reviews[k].book_id > last.args.book_id

\* ----------------------------------------------------------------------
\* update status
ValidStatus(st) == st \in {"Want to Read", "Reading", "Read"}

\* C15: updateStatus answers 400 for a status outside the three valid ones,
\* whether or not the book is stored, and 404 for a valid status and an id
\* no stored book has; in both cases the library is unchanged and no
\* statement is sent to the database
C15_UpdateStatusRejects ==
  [][(last'.op = "update_status")
     => LET id == last'.args.book_id
            st == last'.args.new_status
        IN /\ ~ValidStatus(st)
                => last'.code = 400 /\ last'.io = <<>> /\ UNCHANGED collections
           /\ (ValidStatus(st) /\ ~InLibrary(id))
                => last'.code = 404 /\ last'.io = <<>> /\ UNCHANGED collections]_vars

\* an invalid status refused for a book that is stored
C15_Witness ==
  /\ last.op = "update_status"
  /\ last.code = 400
  /\ InLibrary(last.args.book_id)

\* C16: when updateStatus finds the book and the write fails it answers 500,
\* the stored book's status is new_status all the same, and no row of
\* user_books has that status for the book
C16_FailedWriteKeepsNewStatus ==
  [][(/\ last'.op = "update_status"
      /\ ValidStatus(last'.args.new_status)
      /\ InLibrary(last'.args.book_id)
      /\ ~last'.args.db_ok)
     => LET id == last'.args.book_id
            st == last'.args.new_status
        IN /\ last'.code = 500
           /\ last'.io = <<"UPDATE user_books">>
           /\ heap'[personal_library[FirstInLibrary(id)]].status = st
           /\ ~\E row \in user_books : row.book_id = id /\ row.status = st]_vars

\* a failed write that left a status other than the initial one in memory
C16_Witness ==
  /\ last.op = "update_status"
  /\ last.code = 500
  /\ InLibrary(last.args.book_id)
  /\ heap[personal_library[FirstInLibrary(last.args.book_id)]].status = "Reading"
  /\ last.args.new_status = "Reading"

\* ----------------------------------------------------------------------
\* add book: the three refusals
\* C19: addBook answers 400 for an empty title without calling the search,
\* 500 when the search call fails and 404 when the search returns no
\* candidate, each after exactly one search call; the three collections
\* are unchanged in all three cases
C19_AddBookRefusals ==
  [][(last'.op = "add_book_personal_library")
     => LET book_data == last'.args.book_data
            answer == last'.args.answer
            no_title == "title" \notin DOMAIN book_data \/ book_data.title = ""
        IN /\ no_title
                => last'.code = 400 /\ last'.io = <<>> /\ UNCHANGED collections
           /\ (~no_title /\ ~answer.ok)
                => /\ last'.code = 500
                   /\ last'.io = <<"GET search.json">>
                   /\ UNCHANGED collections
           /\ (~no_title /\ answer.ok /\ answer.docs = <<>>)
                => /\ last'.code = 404
                   /\ last'.io = <<"GET search.json">>
                   /\ UNCHANGED collections]_vars

\* a failed search on a library that holds a book
C19_Witness ==
  /\ last.op = "add_book_personal_library"
  /\ last.code = 500
  /\ last.io = <<"GET search.json">>
  /\ personal_library # <<>>

\* ----------------------------------------------------------------------
\* listings
lib_dicts ==
  [i \in DOMAIN personal_library |->
     [id |-> heap[personal_library[i]].id, title |-> heap[personal_library[i]].title,
      author |-> heap[personal_library[i]].author, isbn |-> heap[personal_library[i]].isbn,
      status |-> heap[personal_library[i]].status]]
fav_dicts ==
  [i \in DOMAIN favorite_books |->
     [id |-> heap[favorite_books[i]].id, title |-> heap[favorite_books[i]].title,
      author |-> heap[favorite_books[i]].author, isbn |-> heap[favorite_books[i]].isbn,
      status |-> heap[favorite_books[i]].status]]
FirstWithStatus(st) ==
  CHOOSE i \in DOMAIN lib_dicts :
    lib_dicts[i].status = st /\ \A j \in 1..(i - 1) : lib_dicts[j].status # st

C18_GetReviews ==
  [][(last'.op = "get_reviews")
     => /\ (last'.code = 404) <=> (reviews = <<>>)
        /\ reviews # <<>> => last'.code = 200 /\ last'.body.reviews = reviews
        /\ UNCHANGED collections]_vars

\* a listing of two reviews
C18_Witness ==
  /\ last.op = "get_reviews"
  /\ last.code = 200
  /\ Len(last.body.reviews) = 2

\* ----------------------------------------------------------------------
\* passwords
\* C20: checkPassword right after setPassword(p) is true for p and false
\* for every other plaintext, whatever the salt; checkPassword is false
\* for every plaintext while the salt or the hash is absent; checkPassword
\* leaves the instance as it is, so the same holds for every later check
C20_PasswordRoundTrip ==
  [][(last'.op = "check_password")
     => /\ (account.salt = "None" \/ account.password_hash = "None")
             => last'.body.result = FALSE
        /\ (last.op = "set_password")
             => last'.body.result = (last'.args.password = last.args.password)
        /\ UNCHANGED account]_vars

\* the password that was set is accepted
C20_Witness ==
  /\ last.op = "check_password"
  /\ last.body.result = TRUE
  /\ last.args.password = "pw"
  /\ account.salt = "s2"

\* ----------------------------------------------------------------------
\* accounts
HasAccount(username) == \E i \in DOMAIN users : users[i].username = username
WithoutAccount(username) == SelectSeq(users, LAMBDA row : row.username # username)

\* C21: createAccount with a username the store already holds answers 400
\* and leaves the rows of the store as they are; after every step no two
\* rows of the store have the same username
C21_UsernameUnique ==
  [][/\ (/\ last'.op = "create_user_account"
         /\ last'.args.db_ok
         /\ HasAccount(last'.args.username))
        => last'.code = 400 /\ users' = users
     /\ \A i, j \in DOMAIN users' : i # j => users'[i].username # users'[j].username]_vars

\* a refused creation whose salt differs from the salt of the stored row
C21_Witness ==
  /\ last.op = "create_user_account"
  /\ last.code = 400
  /\ \E i \in DOMAIN users :
       users[i].username = last.args.username /\ users[i].salt # last.args.salt

\* C24: deleteAccount answers 404 and changes nothing when the username is
\* absent; for an existing account it either answers 200 with the account
\* row gone or answers 500 with no row removed, wherever the connection
\* failed
C24_DeleteAccountAtomic ==
  [][(last'.op = "delete_user_account")
     => LET u == last'.args.username
        IN IF ~HasAccount(u)
           THEN /\ last'.args.fail_at = 0 => last'.code = 404
                /\ users' = users
           ELSE \/ last'.code = 200 /\ users' = WithoutAccount(u)
                \/ last'.code = 500 /\ users' = users]_vars

\* a failure at the commit, after every DELETE was executed
C24_Witness ==
  /\ last.op = "delete_user_account"
  /\ last.code = 500
  /\ last.args.fail_at = 6
  /\ Len(last.io) = 5
  /\ HasAccount(last.args.username)

\* C26: a step of /delete-account or /update-password changes the users
\* table only when the account exists and the supplied (old) password
\* hashes, with the stored salt, to the stored hash; a complete request
\* that does not verify is answered 401 or 404
C26_PasswordGuardsStore ==
  [][(request'.route \in {"/delete-account", "/update-password"})
     => LET d == request'.data
            supplied == IF request'.route = "/delete-account" THEN d.password
                        ELSE d.old_password
            complete == IF request'.route = "/delete-account"
                        THEN d.username # "" /\ d.password # ""
                        ELSE "new_password" \in DOMAIN d
            verifies == \E i \in DOMAIN users :
                          /\ users[i].username = d.username
                          /\ users[i].password = "sha512(" \o supplied \o users[i].salt \o ")"
        IN /\ ~verifies => users' = users
           /\ (complete /\ ~verifies) => last'.code \in {401, 404}]_vars

\* a wrong password refused for an account that exists
C26_Witness ==
  /\ request.route = "/delete-account"
  /\ last.code = 401
  /\ HasAccount(request.data.username)

\* ----------------------------------------------------------------------
\* accounts and their libraries
LibraryRoutes ==
  {"/api/get-library", "/api/add-book", "/api/add-review", "/api/get-reviews",
   "/api/delete-review", "/api/delete-book", "/api/update-status",
   "/api/add-favorite-book"}
RouteOps ==
  {"get_user_library", "add_book", "add_review", "get_user_reviews", "delete_user_review",
   "delete_book", "update_book_status", "add_favorite_book"}

\* C22: an account that was created by the previous call, and is the only
\* account of the store, observes an empty library, no favorites and no
\* reviews: whatever an account deleted before it had stored is destroyed
C22_DeletedAccountDataGone ==
  [][(/\ last.op = "create_user_account"
      /\ last.code = 200
      /\ \A i \in DOMAIN users : users[i].username = last.args.username
      /\ request'.route \in {"/api/get-library", "/api/get-reviews"}
      /\ request'.data.username = last.args.username
      /\ request'.db_ok)
     => IF request'.route = "/api/get-library"
        THEN /\ last'.code = 200
             /\ last'.body.books = <<>>
             /\ last'.body.favorites = <<>>
        ELSE last'.code = 404]_vars

\* C23: a library route served for one account leaves the books, the
\* favorites and the reviews that another account of the store observes
\* unchanged
C23_AccountIsolation ==
  [][(/\ request'.route \in LibraryRoutes
      /\ \E i \in DOMAIN users : users[i].username # request'.data.username)
     => /\ lib_dicts' = lib_dicts
        /\ fav_dicts' = fav_dicts
        /\ reviews' = reviews]_vars

Required(route) ==
  CASE route \in {"/api/get-library", "/api/get-reviews", "/api/delete-book"} -> {"username"}
    [] route = "/api/add-book" -> {"username", "title"}
    [] route = "/api/add-review" -> {"username", "title", "review", "book_id"}
    [] route \in {"/api/delete-review", "/api/add-favorite-book"} -> {"username", "book_id"}
    [] route = "/api/update-status" -> {"username", "status"}
MissingField(route, d) ==
  \E k \in Required(route) : IF k = "book_id" THEN d[k] = 0 ELSE d[k] = ""

\* C25: a library route answers 400 when a required field is missing or
\* empty and 404 when the username names no account, both times as the
\* route's own answer with the collections unchanged; no answer of a
\* library route is an exception that left the route
C25_RoutesValidateAtBoundary ==
  [][(request'.route \in LibraryRoutes)
     => LET d == request'.data
        IN /\ MissingField(request'.route, d)
                => last'.code = 400 /\ last'.op \in RouteOps /\ UNCHANGED collections
           /\ (~MissingField(request'.route, d) /\ ~HasAccount(d.username))
                => last'.op \in RouteOps /\ UNCHANGED collections
                   /\ (last'.code = 404 \/ (request'.route = "/api/update-status" /\ last'.code = 400))
           /\ "exception" \notin DOMAIN last'.body]_vars

\* ----------------------------------------------------------------------
\* statuses, duplicates and ids
\* C27: after every step each book of personal_library and of
\* favorite_books has one of the three statuses; a book that was just
\* added has "Want to Read"; updateStatus with a valid status, a stored
\* book and a working write answers 200 and gives the first book with the
\* id that status, whatever status it had
C27_StatusesValid ==
  [][/\ \A i \in DOMAIN lib_dicts' : ValidStatus(lib_dicts'[i].status)
     /\ \A j \in DOMAIN fav_dicts' : ValidStatus(fav_dicts'[j].status)
     /\ (last'.op = "add_book_personal_library" /\ last'.code = 200)
          => /\ Len(personal_library') = Len(personal_library) + 1
             /\ lib_dicts'[Len(personal_library')].status = "Want to Read"
     /\ (/\ last'.op = "update_status"
         /\ ValidStatus(last'.args.new_status)
         /\ InLibrary(last'.args.book_id)
         /\ last'.args.db_ok)
          => /\ last'.code = 200
             /\ lib_dicts'[FirstInLibrary(last'.args.book_id)].status
                  = last'.args.new_status]_vars

\* a book moved from "Read", which favoriting gave it, back to "Want to Read"
C27_Witness ==
  /\ last.op = "update_status"
  /\ last.code = 200
  /\ last.args.new_status = "Want to Read"
  /\ \E j \in DOMAIN favorite_books : fav_ids[j] = last.args.book_id

\* C28 as stated: every book of favorite_books has status "Read"
C28_FavoritesAlwaysRead ==
  \A j \in DOMAIN favorite_books : heap[favorite_books[j]].status = "Read"

\* C28, amended: the step that favorites a book appends the first stored
\* book with the id and leaves it with status "Read"; afterwards the status
\* of a favorite changes in steps of updateStatus only
C28_FavoritedAsRead ==
  [][/\ (last'.op = "add_book_favorite_books" /\ last'.code = 200)
          => /\ favorite_books' = Append(favorite_books,
                                         personal_library[FirstInLibrary(last'.args.book_id)])
             /\ fav_dicts'[Len(favorite_books')].status = "Read"
     /\ \A j \in DOMAIN favorite_books :
          (j \in DOMAIN favorite_books' /\ fav_dicts'[j].status # fav_dicts[j].status)
            => last'.op = "update_status"]_vars

\* a second favorite, just marked "Read"
C28_Witness ==
  /\ last.op = "add_book_favorite_books"
  /\ last.code = 200
  /\ Len(favorite_books) = 2
  /\ heap[favorite_books[2]].status = "Read"

\* C29: no two books of personal_library have the same title and the same
\* author when letter case is ignored
C29_NoDuplicateBooks ==
  \A i, j \in DOMAIN personal_library :
    i # j => ~(/\ SameIgnoringCase(heap[personal_library[i]].title,
                                   heap[personal_library[j]].title)
               /\ SameIgnoringCase(heap[personal_library[i]].author,
                                   heap[personal_library[j]].author))

\* a duplicate was declined while the library held two books
C29_Witness ==
  /\ last.op = "add_book_personal_library"
  /\ last.code = 400
  /\ "book" \in DOMAIN last.body
  /\ Len(personal_library) = 2

\* C30: every stored book is addressed by its id: for each stored book b,
\* a successful updateStatus on b.id gives b the status, favoriteBook on
\* b.id appends b, addReview on b.id records b's title, and deleteBook on
\* b.id removes b and no other book
C30_AddressedById ==
  [][\A i \in DOMAIN personal_library :
       (last'.code = 200 /\ "book_id" \in DOMAIN last'.args /\ lib_ids[i] = last'.args.book_id)
       => /\ last'.op = "update_status"
               => heap'[personal_library[i]].status = last'.args.new_status
          /\ last'.op = "add_book_favorite_books"
               => favorite_books'[Len(favorite_books')] = personal_library[i]
          /\ last'.op = "add_book_review"
               => reviews'[Len(reviews')].book_title = heap[personal_library[i]].title
          /\ last'.op = "delete_book_from_library"
               => personal_library' = SubSeq(personal_library, 1, i - 1)
                                        \o SubSeq(personal_library, i + 1, Len(personal_library))]_vars

\* C31: a successful addBook followed at once by deleteBook with the id that
\* addBook returned leaves personal_library as it was before the addBook,
\* contents and order (the addBook appended one book at the end)
C31_AddThenDeleteRestores ==
  [][(/\ last.op = "add_book_personal_library"
      /\ last.code = 200
      /\ last'.op = "delete_book_from_library"
      /\ last'.args.book_id = last.body.book.id)
     => lib_dicts' = SubSeq(lib_dicts, 1, Len(lib_dicts) - 1)]_vars

\* C32: favoriteBook answers 400 only when the book it found in
\* personal_library (the first stored book with the id) is itself an
\* element of favorite_books
C32_DuplicateOnlyIfFavorited ==
  [][(last'.op = "add_book_favorite_books" /\ last'.code = 400)
     => \E j \in DOMAIN favorite_books :
          favorite_books[j] = personal_library[FirstInLibrary(last'.args.book_id)]]_vars

\* C33: favorite_books holds no two entries with the same id and no book
\* entity twice
C33_FavoritesUnique ==
  \A i, j \in DOMAIN favorite_books :
    i # j => fav_ids[i] # fav_ids[j] /\ favorite_books[i] # favorite_books[j]

\* a favoriting declined as a duplicate while two favorites are held
C33_Witness ==
  /\ last.op = "add_book_favorite_books"
  /\ last.code = 400
  /\ Len(favorite_books) = 2
  /\ \E j \in DOMAIN favorite_books : fav_ids[j] = last.args.book_id

\* C34: every review refers to a book that is or was in personal_library,
\* under the title the book had when the review was added: a step keeps the
\* reviews it does not remove as they are, and a review it adds has the id
\* and the title of a book stored in personal_library at that moment
C34_ReviewsReferToStoredBooks ==
  [][\A k \in DOMAIN reviews' :
       \/ \E j \in DOMAIN reviews : reviews[j] = reviews'[k]
       \/ \E i \in DOMAIN personal_library :
            /\ lib_dicts[i].id = reviews'[k].book_id
            /\ lib_dicts[i].title = reviews'[k].book_title]_vars

\* a review of a book still stored, next to a review whose book has left
\* the library
C34_Witness ==
  /\ Len(reviews) = 2
  /\ \E k \in DOMAIN reviews : \E i \in DOMAIN personal_library :
       lib_ids[i] = reviews[k].book_id /\ heap[personal_library[i]].title = reviews[k].book_title
  /\ \E k \in DOMAIN reviews : \A i \in DOMAIN personal_library :
       lib_ids[i] # reviews[k].book_id

\* the status codes with which an operation of the library declines a call
Declines(op) ==
  CASE op = "add_book_favorite_books"  -> {404, 400}
    [] op = "delete_book_from_library" -> {404}
    [] op = "add_book_review"          -> {400, 404, 402}
    [] op = "delete_review"            -> {400, 404}
    [] OTHER                           -> {}

\* C35: favoriteBook, deleteBook, addReview and deleteReview either succeed
\* (200) or decline with one of their codes, and a declined call leaves
\* personal_library, favorite_books, reviews and every book as they were
C35_DeclinedCallsChangeNothing ==
  [][(last'.op \in {"add_book_favorite_books", "delete_book_from_library",
                    "add_book_review", "delete_review"} /\ last'.code # 200)
     => /\ last'.code \in Declines(last'.op)
        /\ personal_library' = personal_library
        /\ favorite_books' = favorite_books
        /\ reviews' = reviews
        /\ lib_dicts' = lib_dicts
        /\ fav_dicts' = fav_dicts]_vars

\* a favoriting declined as a duplicate for a book whose status is no
\* longer "Read", with a review stored
C35_Witness ==
  /\ last.op = "add_book_favorite_books"
  /\ last.code = 400
  /\ \E i \in DOMAIN personal_library :
       lib_ids[i] = last.args.book_id /\ heap[personal_library[i]].status # "Read"
  /\ reviews # <<>>

\* the call just answered was an update-password with that code, asking for
\* a new password other than the old one
UpdatedPassword(code) ==
  /\ last.op = "update_password"
  /\ last.code = code
  /\ last.args.data.new_password # last.args.data.old_password

\* the next call is a login to the same account that reaches the users table
LoginAfter ==
  /\ last'.op = "login"
  /\ last'.args.lookup_ok
  /\ last'.args.data.username = last.args.data.username

\* C36: a successful update-password to another password stores the salt
\* drawn by that call, and a login that follows succeeds with the new
\* password and fails with the old one; an update-password whose write
\* fails (500) leaves the users table as it was, and a login that follows
\* succeeds with the old password and fails with the new one
C36_UpdatePasswordThenLogin ==
  [][/\ (last'.op = "update_password" /\ last'.code = 200)
          => /\ Len(users') = Len(users)
             /\ \E k \in DOMAIN users' :
                  /\ users'[k].username = last'.args.data.username
                  /\ users'[k].salt = last'.args.salt
                  /\ \A j \in DOMAIN users' : j # k => users'[j] = users[j]
     /\ (last'.op = "update_password" /\ last'.code = 500) => users' = users
     /\ (UpdatedPassword(200) /\ LoginAfter)
          => /\ last'.args.data.password = last.args.data.new_password => last'.code = 200
             /\ last'.args.data.password = last.args.data.old_password => last'.code = 401
     /\ (UpdatedPassword(500) /\ LoginAfter)
          => /\ last'.args.data.password = last.args.data.old_password => last'.code = 200
             /\ last'.args.data.password = last.args.data.new_password => last'.code = 401]_vars

\* a login with the password the account was created with, refused because
\* the row now holds the digest of the new password under the other salt
C36_Witness ==
  /\ last.op = "login"
  /\ last.code = 401
  /\ last.args.lookup_ok
  /\ last.args.data.password = "pw"
  /\ \E k \in DOMAIN users :
       /\ users[k].username = last.args.data.username
       /\ users[k].salt = "s2"
       /\ users[k].password = "sha512(pwss2)"

\* C37: with add-book calls overtaking one another between the duplicate
\* check and the append, personal_library still holds no two books with the
\* same title and author ignoring case, and no two books with the same id
C37_ConcurrentAddsStayUnique ==
  \A i, j \in DOMAIN personal_library :
    i # j => /\ lib_ids[i] # lib_ids[j]
             /\ ~(/\ SameIgnoringCase(lib_dicts[i].title, lib_dicts[j].title)
                  /\ SameIgnoringCase(lib_dicts[i].author, lib_dicts[j].author))

====
